---- MODULE Spec2Model ----
(***************************************************************************)
(* Model of src/lib/mongodb.ts: the cached connection helper connectDB and *)
(* the Booking schema with its pre-save reference check.                   *)
(*                                                                         *)
(* connectDB is an async function run on a single-threaded event loop.  A  *)
(* call runs synchronously up to its await; the rest of the call is a      *)
(* promise reaction, run as a job of the FIFO job queue once the awaited   *)
(* promise has settled.                                                    *)
(***************************************************************************)
EXTENDS Integers, Sequences, FiniteSets

(* ------------------------------ bounds -------------------------------- *)
NumCallers == 3
MaxAttempts == 3
MaxLoads == 2

Callers == 1..NumCallers
Attempts == 1..MaxAttempts
Null == 0

VARIABLES
    conn,       \* cached.conn: Null or a connection handle
    promise,    \* cached.promise: Null or the id of a connect attempt
    pstate,     \* state of the promise of each connect attempt
    attempts,   \* number of mongoose.connect calls made so far
    waiters,    \* reactions registered on each pending promise, in order
    jobs,       \* the job queue: calls not yet run and promise reactions
    pc,         \* where each caller's connectDB call is
    awaited,    \* the promise the caller's await was evaluated on
    ret,        \* the connection the call returned (Null: none)
    err         \* the attempt whose failure the call threw (Null: none)

connVars == <<conn, promise, pstate, attempts, waiters, jobs, pc, awaited, ret, err>>

VARIABLES
    events,     \* the ids of the Event records that exist
    saved,      \* the persisted Booking records
    booking     \* the Booking documents in memory and their save in progress

bookVars == <<events, saved, booking>>

VARIABLES
    uri,         \* process.env.MONGODB_URI
    moduleState, \* whether the module has been evaluated, and how that ended
    globalSet,   \* whether global.mongoose is defined
    loads,       \* number of evaluations of the module so far
    gen          \* the evaluation count when the latest connectDB call ran

modVars == <<uri, moduleState, globalSet, loads, gen>>
vars == <<conn, promise, pstate, attempts, waiters, jobs, pc, awaited, ret, err,
          events, saved, booking, uri, moduleState, globalSet, loads, gen>>

(* mongooseInstance.connection: mongoose.connect resolves to the mongoose   *)
(* module object itself, whose connection is its one default connection.   *)
DefaultConnection == 1
Handle(p) == DefaultConnection

CallJob(c) == [kind |-> "call", c |-> c]
ContJob(c) == [kind |-> "cont", c |-> c]

RECURSIVE Reactions(_)
Reactions(ws) ==
    IF ws = <<>> THEN <<>> ELSE <<ContJob(Head(ws))>> \o Reactions(Tail(ws))

ConnInit ==
    /\ conn = Null
    /\ promise = Null
    /\ pstate = [p \in Attempts |-> "none"]
    /\ attempts = 0
    /\ waiters = [p \in Attempts |-> <<>>]
    /\ jobs = <<>>
    /\ pc = [c \in Callers |-> "idle"]
    /\ awaited = [c \in Callers |-> Null]
    /\ ret = [c \in Callers |-> Null]
    /\ err = [c \in Callers |-> Null]

(* const MONGODB_URI = process.env.MONGODB_URI                             *)
UriValues == {"undefined", "", "mongodb://db"}

(* if (!MONGODB_URI) throw new Error(...)                                  *)
UriMissingNever == FALSE
UriMissing == uri \in {"undefined", ""}

(* let cached = global.mongoose; if (!cached) ...                          *)
GlobalCacheMissingAlways == TRUE
GlobalCacheMissing == ~globalSet

(* The process before the module is first evaluated.                       *)
Unloaded ==
    /\ uri \in UriValues
    /\ moduleState = "unloaded"
    /\ globalSet = FALSE
    /\ loads = 0
    /\ gen = 0

(* The process once the module has been evaluated with the URI defined.    *)
Loaded ==
    /\ uri = "mongodb://db"
    /\ moduleState = "loaded"
    /\ globalSet = TRUE
    /\ loads = 1
    /\ gen = 0

(* An evaluation of the module: the first import, a hot reload, or a new   *)
(* invocation in the same process.                                         *)
LoadModule ==
    /\ loads < MaxLoads
    /\ loads' = loads + 1
    /\ IF UriMissing
       THEN /\ moduleState' = "failed"
            /\ UNCHANGED <<conn, promise, globalSet>>
       ELSE /\ moduleState' = "loaded"
            /\ IF GlobalCacheMissing
               THEN /\ conn' = Null
                    /\ promise' = Null
                    /\ globalSet' = TRUE
               ELSE UNCHANGED <<conn, promise, globalSet>>
    /\ UNCHANGED <<pstate, attempts, waiters, jobs, pc, awaited, ret, err>>
    /\ UNCHANGED <<bookVars, uri, gen>>

(* A caller schedules a connectDB call (a request handler, a retry after   *)
(* a failure, a later use of the connection).                              *)
Invoke(c) ==
    /\ moduleState = "loaded"
    /\ pc[c] \in {"idle", "returned", "thrown"}
    /\ pc' = [pc EXCEPT ![c] = "queued"]
    /\ awaited' = [awaited EXCEPT ![c] = Null]
    /\ ret' = [ret EXCEPT ![c] = Null]
    /\ err' = [err EXCEPT ![c] = Null]
    /\ jobs' = Append(jobs, CallJob(c))
    /\ UNCHANGED <<conn, promise, pstate, attempts, waiters>>
    /\ UNCHANGED <<bookVars, modVars>>

(* if (cached.conn) return cached.conn;                                    *)
HasConnNever == FALSE
HasConn == conn # Null

(* if (!cached.promise) { cached.promise = mongoose.connect(...) }         *)
MustConnectAlways == TRUE
MustConnect == promise = Null

AwaitMissesSettled(c, p, ps, js) ==
    /\ awaited' = [awaited EXCEPT ![c] = p]
    /\ pc' = [pc EXCEPT ![c] = "awaiting"]
    /\ waiters' = [waiters EXCEPT ![p] = Append(@, c)]
    /\ jobs' = js

(* await p: a reaction on a pending promise is registered; on a settled    *)
(* promise it is queued at once.                                           *)
Await(c, p, ps, js) ==
    /\ awaited' = [awaited EXCEPT ![c] = p]
    /\ pc' = [pc EXCEPT ![c] = "awaiting"]
    /\ IF ps[p] = "pending"
       THEN /\ waiters' = [waiters EXCEPT ![p] = Append(@, c)]
            /\ jobs' = js
       ELSE /\ waiters' = waiters
            /\ jobs' = Append(js, ContJob(c))

(* The synchronous part of connectDB, up to its await.                     *)
ConnectDBCall(c) ==
    /\ jobs # <<>>
    /\ Head(jobs) = CallJob(c)
    /\ gen' = loads
    /\ UNCHANGED <<bookVars, uri, moduleState, globalSet, loads>>
    /\ IF HasConn
       THEN /\ pc' = [pc EXCEPT ![c] = "returned"]
            /\ ret' = [ret EXCEPT ![c] = conn]
            /\ jobs' = Tail(jobs)
            /\ UNCHANGED <<conn, promise, pstate, attempts, waiters, awaited, err>>
       ELSE IF MustConnect
       THEN /\ attempts < MaxAttempts
            /\ attempts' = attempts + 1
            /\ promise' = attempts + 1
            /\ pstate' = [pstate EXCEPT ![attempts + 1] = "pending"]
            /\ Await(c, attempts + 1, pstate', Tail(jobs))
            /\ UNCHANGED <<conn, ret, err>>
       ELSE /\ Await(c, promise, pstate, Tail(jobs))
            /\ UNCHANGED <<conn, promise, pstate, attempts, ret, err>>

(* The underlying connect attempt settles: cached.promise of that attempt  *)
(* is fulfilled or rejected and its reactions are queued in order.         *)
Settle(p, ok) ==
    /\ pstate[p] = "pending"
    /\ pstate' = [pstate EXCEPT ![p] = IF ok THEN "fulfilled" ELSE "rejected"]
    /\ jobs' = jobs \o Reactions(waiters[p])
    /\ waiters' = [waiters EXCEPT ![p] = <<>>]
    /\ UNCHANGED <<conn, promise, attempts, pc, awaited, ret, err>>
    /\ UNCHANGED <<bookVars, modVars>>

OnFulfilledClearsMarker(c) ==
    /\ conn' = Handle(awaited[c])
    /\ promise' = Null
    /\ pc' = [pc EXCEPT ![c] = "returned"]
    /\ ret' = [ret EXCEPT ![c] = conn']
    /\ UNCHANGED err

(* cached.conn = await cached.promise; return cached.conn;                 *)
OnFulfilled(c) ==
    /\ conn' = Handle(awaited[c])
    /\ pc' = [pc EXCEPT ![c] = "returned"]
    /\ ret' = [ret EXCEPT ![c] = conn']
    /\ UNCHANGED <<promise, err>>

OnRejectedSwallows(c) ==
    /\ promise' = Null
    /\ pc' = [pc EXCEPT ![c] = "returned"]
    /\ ret' = [ret EXCEPT ![c] = conn]
    /\ UNCHANGED <<conn, err>>

(* catch (error) { cached.promise = null; throw error; }                   *)
OnRejected(c) ==
    /\ promise' = Null
    /\ pc' = [pc EXCEPT ![c] = "thrown"]
    /\ err' = [err EXCEPT ![c] = awaited[c]]
    /\ UNCHANGED <<conn, ret>>

(* The rest of connectDB after its await.                                  *)
ConnectDBResume(c) ==
    /\ jobs # <<>>
    /\ Head(jobs) = ContJob(c)
    /\ jobs' = Tail(jobs)
    /\ IF pstate[awaited[c]] = "fulfilled" THEN OnFulfilled(c) ELSE OnRejected(c)
    /\ UNCHANGED <<pstate, attempts, waiters, awaited>>
    /\ UNCHANGED <<bookVars, modVars>>

ConnNext ==
    \/ \E c \in Callers : Invoke(c)
    \/ \E c \in Callers : ConnectDBCall(c)
    \/ \E p \in Attempts, ok \in BOOLEAN : Settle(p, ok)
    \/ \E c \in Callers : ConnectDBResume(c)



(* ---------------------------- Booking schema --------------------------- *)
EventIds == {"E1", "E2"}
NoEvent == "none"
Docs == {"b1"}
NoRecord == [eventId |-> NoEvent, email |-> <<>>]

Whitespace == {" ", "\t"}
UpperCase == <<"A", "B", "C", "D", "E", "F", "G", "H", "I", "J", "K", "L", "M",
               "N", "O", "P", "Q", "R", "S", "T", "U", "V", "W", "X", "Y", "Z">>
LowerCase == <<"a", "b", "c", "d", "e", "f", "g", "h", "i", "j", "k", "l", "m",
               "n", "o", "p", "q", "r", "s", "t", "u", "v", "w", "x", "y", "z">>

(* The email inputs a caller may assign.                                   *)
EmailInputs ==
    { <<"U", "s", "e", "r", "@", "E", "x", "a", "m", "p", "l", "e", ".", "c", "o", "m">>,
      <<" ", "U", "@", "e", ".", "c", " ">>,
      <<"n", "o", "t", "-", "a", "n", "-", "e", "m", "a", "i", "l">>,
      <<"u", "@", "e">>,
      <<"u", " ", "e", "@", "e", ".", "c">>,
      <<"u", "@", "@", "e", ".", "c">>,
      <<>>,
      <<"u", "@", ".", "c">> }

LowerChar(ch) ==
    IF \E i \in 1..Len(UpperCase) : UpperCase[i] = ch
    THEN LowerCase[CHOOSE i \in 1..Len(UpperCase) : UpperCase[i] = ch]
    ELSE ch

(* lowercase: true                                                         *)
ToLowerCase(s) == [i \in 1..Len(s) |-> LowerChar(s[i])]

RECURSIVE TrimStart(_)
TrimStart(s) ==
    IF s # <<>> /\ Head(s) \in Whitespace THEN TrimStart(Tail(s)) ELSE s

RECURSIVE TrimEnd(_)
TrimEnd(s) ==
    IF s # <<>> /\ s[Len(s)] \in Whitespace THEN TrimEnd(SubSeq(s, 1, Len(s) - 1)) ELSE s

(* trim: true                                                              *)
Trim(s) == TrimEnd(TrimStart(s))

(* The setters of the email path, applied when the path is assigned.       *)
NormalizeTrimOnly(s) == Trim(s)
Normalize(s) == ToLowerCase(Trim(s))

(* /^[^\s@]+@[^\s@]+\.[^\s@]+$/.test(v): one "@" and no whitespace, a      *)
(* non-empty local part, and after the "@" a "." with at least one         *)
(* character on each side.                                                 *)
EmailMatches(v) ==
    \E i, j \in 1..Len(v) :
        /\ v[i] = "@"
        /\ v[j] = "."
        /\ 1 < i
        /\ i + 1 < j
        /\ j < Len(v)
        /\ \A k \in 1..Len(v) : k # i => v[k] \notin Whitespace \cup {"@"}

ValidatesAnything(b) == TRUE

(* The validators of the schema: eventId and email are required, and the   *)
(* email must match the pattern.                                           *)
Validates(b) ==
    /\ b.eventId # NoEvent
    /\ b.email # <<>>
    /\ EmailMatches(b.email)

(* if (this.isNew || this.isModified('eventId'))                           *)
NeedsEventCheckAlways(b) == TRUE
NeedsEventCheckNewOnly(b) == b.isNew
NeedsEventCheck(b) == b.isNew \/ "eventId" \in b.modified

(* if (!eventExists) throw new Error(...)                                  *)
EventCheckNeverThrows(eventExists) == FALSE
EventCheckThrows(eventExists) == ~eventExists

Absent ==
    [phase |-> "absent", isNew |-> FALSE, eventId |-> NoEvent, email |-> <<>>,
     raw |-> <<>>, modified |-> {}, outcome |-> "none", errId |-> NoEvent,
     eventExists |-> "unset", wasNew |-> FALSE, refChanged |-> FALSE,
     missingAtSave |-> FALSE]

BookInit ==
    /\ events = {}
    /\ saved = [d \in Docs |-> NoRecord]
    /\ booking = [d \in Docs |-> Absent]

(* new Booking({ eventId, email })                                         *)
NewBooking(d, e, raw) ==
    /\ booking[d].phase = "absent"
    /\ booking' = [booking EXCEPT ![d] =
          [Absent EXCEPT !.phase = "idle", !.isNew = TRUE, !.eventId = e,
                         !.raw = raw, !.email = Normalize(raw)]]
    /\ UNCHANGED <<events, saved>>
    /\ UNCHANGED <<connVars, modVars>>

(* What the last save reported; cleared when the document is changed.      *)
Unreported(b) ==
    [b EXCEPT !.outcome = "none", !.errId = NoEvent, !.eventExists = "unset",
              !.wasNew = FALSE, !.refChanged = FALSE, !.missingAtSave = FALSE]

(* booking.email = raw                                                     *)
SetEmail(d, raw) ==
    /\ booking[d].phase = "idle"
    /\ LET b == Unreported(booking[d])
           v == Normalize(raw)
       IN booking' = [booking EXCEPT ![d] =
             [b EXCEPT !.raw = raw, !.email = v,
                       !.modified = IF v = b.email THEN @ ELSE @ \cup {"email"}]]
    /\ UNCHANGED <<events, saved>>
    /\ UNCHANGED <<connVars, modVars>>

(* booking.eventId = e                                                     *)
SetEventId(d, e) ==
    /\ booking[d].phase = "idle"
    /\ e # booking[d].eventId
    /\ LET b == Unreported(booking[d])
       IN booking' = [booking EXCEPT ![d] =
             [b EXCEPT !.eventId = e, !.modified = @ \cup {"eventId"}]]
    /\ UNCHANGED <<events, saved>>
    /\ UNCHANGED <<connVars, modVars>>

(* booking.save(), up to its first database round trip: the built-in       *)
(* validation runs before the pre('save') hook, which either issues the    *)
(* Event lookup or lets the write go ahead.                                *)
Save(d) ==
    /\ booking[d].phase = "idle"
    /\ LET b == [Unreported(booking[d]) EXCEPT
                    !.wasNew = booking[d].isNew,
                    !.refChanged = "eventId" \in booking[d].modified,
                    !.missingAtSave = booking[d].eventId \notin events]
       IN booking' = [booking EXCEPT ![d] =
             IF ~Validates(b) THEN [b EXCEPT !.outcome = "ValidationError"]
             ELSE IF NeedsEventCheck(b) THEN [b EXCEPT !.phase = "lookup"]
             ELSE [b EXCEPT !.phase = "write"]]
    /\ UNCHANGED <<events, saved>>
    /\ UNCHANGED <<connVars, modVars>>

(* const eventExists = await Event.findById(this.eventId), and the rest of *)
(* the hook.                                                               *)
LookupDone(d) ==
    /\ booking[d].phase = "lookup"
    /\ LET eventExists == booking[d].eventId \in events
           b == [booking[d] EXCEPT !.eventExists = IF eventExists THEN "found" ELSE "missing"]
       IN booking' = [booking EXCEPT ![d] =
             IF EventCheckThrows(eventExists)
             THEN [b EXCEPT !.phase = "idle", !.outcome = "ReferenceError",
                            !.errId = b.eventId]
             ELSE [b EXCEPT !.phase = "write"]]
    /\ UNCHANGED <<events, saved>>
    /\ UNCHANGED <<connVars, modVars>>

(* The insert or update that save() sends once its hooks have passed.      *)
WriteCommit(d) ==
    /\ booking[d].phase = "write"
    /\ saved' = [saved EXCEPT ![d] =
          [eventId |-> booking[d].eventId, email |-> booking[d].email]]
    /\ booking' = [booking EXCEPT ![d] =
          [@ EXCEPT !.phase = "idle", !.isNew = FALSE, !.modified = {},
                    !.outcome = "saved"]]
    /\ UNCHANGED events
    /\ UNCHANGED <<connVars, modVars>>

(* Other operations on the Event collection.                               *)
CreateEvent(e) ==
    /\ e \notin events
    /\ events' = events \cup {e}
    /\ UNCHANGED <<saved, booking>>
    /\ UNCHANGED <<connVars, modVars>>

DeleteEvent(e) ==
    /\ e \in events
    /\ events' = events \ {e}
    /\ UNCHANGED <<saved, booking>>
    /\ UNCHANGED <<connVars, modVars>>

BookNext ==
    \/ \E d \in Docs, e \in EventIds \cup {NoEvent}, raw \in EmailInputs : NewBooking(d, e, raw)
    \/ \E d \in Docs, raw \in EmailInputs : SetEmail(d, raw)
    \/ \E d \in Docs, e \in EventIds : SetEventId(d, e)
    \/ \E d \in Docs : Save(d)
    \/ \E d \in Docs : LookupDone(d)
    \/ \E d \in Docs : WriteCommit(d)
    \/ \E e \in EventIds : CreateEvent(e)
    \/ \E e \in EventIds : DeleteEvent(e)

(* ---------------------------- specifications --------------------------- *)
Init == ConnInit /\ Loaded /\ BookInit

ConnSpec == Init /\ [][ConnNext]_vars

(* connectDB on an event loop that runs every queued job, with connect     *)
(* attempts that all settle.  A call is scheduled only while the attempts  *)
(* it and the calls queued before it may start fit under MaxAttempts.      *)
InvokeBounded(c) ==
    /\ HasConn \/ attempts + Cardinality({d \in Callers : pc[d] = "queued"}) < MaxAttempts
    /\ Invoke(c)

FairNext ==
    \/ \E c \in Callers : InvokeBounded(c)
    \/ \E c \in Callers : ConnectDBCall(c)
    \/ \E p \in Attempts, ok \in BOOLEAN : Settle(p, ok)
    \/ \E c \in Callers : ConnectDBResume(c)

FairSpec ==
    /\ Init
    /\ [][FairNext]_vars
    /\ \A c \in Callers : WF_vars(ConnectDBCall(c)) /\ WF_vars(ConnectDBResume(c))
    /\ \A p \in Attempts : WF_vars(\E ok \in BOOLEAN : Settle(p, ok))

(* The process from before the first evaluation of the module.             *)
ModuleNext ==
    \/ LoadModule
    \/ \E c \in Callers : Invoke(c)
    \/ \E c \in Callers : ConnectDBCall(c)
    \/ \E p \in Attempts, ok \in BOOLEAN : Settle(p, ok)
    \/ \E c \in Callers : ConnectDBResume(c)

StartInit == ConnInit /\ Unloaded /\ BookInit

ModuleSpec == StartInit /\ [][ModuleNext]_vars

BookingSpec == Init /\ [][BookNext]_vars

(* ------------------------ connectDB: properties ----------------------- *)
Outstanding == {p \in Attempts : pstate[p] = "pending"}
Joined(p) == {c \in Callers : awaited[c] = p}
Starts(c) == pc[c] = "queued" /\ pc'[c] # "queued"
Throws(c) == pc[c] = "awaiting" /\ pc'[c] = "thrown"

(* C1: while no connection is cached and the first connect attempt has not *)
(* settled, every connectDB call that runs joins that one attempt, so      *)
(* exactly one mongoose.connect has been started; and once it has          *)
(* succeeded every call that joined it returns the connection it yielded.  *)
C1_OneAttemptShared ==
    /\ \A c \in Callers :
          (pc[c] = "awaiting" /\ attempts >= 1 /\ pstate[1] = "pending")
             => (attempts = 1 /\ awaited[c] = 1 /\ promise = 1 /\ conn = Null)
    /\ \A c \in Joined(1) :
          pc[c] = "returned" => (pstate[1] = "fulfilled" /\ ret[c] = Handle(1) /\ ret[c] = conn)

C1_Witness ==
    /\ attempts = 1
    /\ pstate[1] = "fulfilled"
    /\ Cardinality({c \in Joined(1) : pc[c] = "returned" /\ ret[c] = Handle(1)}) >= 2

(* C2: in every reachable state at most one connect attempt is outstanding *)
(* (started and not yet settled).                                          *)
C2_AtMostOneOutstanding == Cardinality(Outstanding) <= 1

(* C3: once cached.conn is set it is never cleared or replaced, and every  *)
(* connectDB call that runs afterwards returns that connection at once,    *)
(* starting no connect attempt and awaiting nothing.                       *)
C3_CachedConnReused ==
    [][conn # Null =>
         /\ conn' = conn
         /\ attempts' = attempts
         /\ \A c \in Callers :
               Starts(c) => (pc'[c] = "returned" /\ ret'[c] = conn /\ awaited'[c] = Null)]_connVars

C3_Witness ==
    \E c \in Callers : pc[c] = "returned" /\ awaited[c] = Null /\ ret[c] = conn /\ conn # Null

(* C4: when a caller observes the failure of the attempt it awaited, the   *)
(* failure is thrown to it and the cache then holds neither a connection   *)
(* nor an in-flight marker; only a connectDB call starts an attempt, and a *)
(* call that finds the cache empty starts a fresh one.                     *)
C4_FailureResetsCache ==
    [][/\ \A c \in Callers :
            Throws(c) => /\ pstate[awaited[c]] = "rejected"
                         /\ err'[c] = awaited[c]
                         /\ ret'[c] = Null
                         /\ conn' = Null
                         /\ promise' = Null
                         /\ attempts' = attempts
       /\ attempts' # attempts => \E c \in Callers : Starts(c)
       /\ \A c \in Callers :
            (Starts(c) /\ conn = Null /\ promise = Null)
               => /\ attempts' = attempts + 1
                  /\ promise' = attempts'
                  /\ pstate'[attempts'] = "pending"
                  /\ awaited'[c] = attempts']_connVars

C11_CatchClearsOwnMarker ==
    [][\A c \in Callers : Throws(c) => promise \in {Null, awaited[c]}]_connVars

C15_EveryCallTerminates ==
    \A c \in Callers :
        (pc[c] \in {"queued", "awaiting"}) ~> (pc[c] \in {"returned", "thrown"})

C15_Witness ==
    \E c, d \in Callers :
        /\ c # d
        /\ awaited[c] = awaited[d]
        /\ awaited[c] # Null
        /\ pc[c] = "returned" /\ pc[d] = "returned"
        /\ \E e \in Callers : pc[e] = "thrown"

(* ------------------------- Booking: properties ------------------------ *)
SaveInvoked(b) == b.phase \in {"lookup", "write"} \/ b.outcome # "none"
FinishedCreate(b) == b.phase = "idle" /\ b.outcome # "none" /\ b.wasNew
IsNormalized(e) ==
    /\ e # <<>> => (e[1] \notin Whitespace /\ e[Len(e)] \notin Whitespace)
    /\ \A i \in 1..Len(e) : \A u \in 1..Len(UpperCase) : e[i] # UpperCase[u]
NormalizedFormOf(e, raw) ==
    \E k \in 0..Len(raw) :
        /\ k + Len(e) <= Len(raw)
        /\ \A i \in 1..Len(e) : e[i] = LowerChar(raw[k + i])
        /\ \A i \in 1..Len(raw) : (i <= k \/ i > k + Len(e)) => raw[i] \in Whitespace
UserExampleInput == <<"U", "s", "e", "r", "@", "E", "x", "a", "m", "p", "l", "e", ".", "c", "o", "m">>
UserExampleStored == <<"u", "s", "e", "r", "@", "e", "x", "a", "m", "p", "l", "e", ".", "c", "o", "m">>

(* C6: whenever a write introduces or changes the eventId of a persisted   *)
(* Booking, that eventId is the id of an Event that exists when the write  *)
(* commits.                                                                *)
C6_NoDanglingReference ==
    [][\A d \in Docs :
          saved'[d].eventId # saved[d].eventId => saved'[d].eventId \in events']_bookVars

(* C7 as stated: a create whose eventId refers to no existing Event (none  *)
(* when save was called, none found by the hook) fails with a reference    *)
(* error that names the eventId, and nothing is persisted.                 *)
C7_MissingEventRejected_Original ==
    \A d \in Docs :
        LET b == booking[d]
        IN (FinishedCreate(b) /\ b.eventId \in EventIds /\ b.missingAtSave
              /\ b.eventExists # "found")
             => (b.outcome = "ReferenceError" /\ b.errId = b.eventId /\ saved[d] = NoRecord)

(* C7, amended: a create with a well-formed email whose eventId refers to  *)
(* no existing Event fails with a reference error that names the eventId,  *)
(* and nothing is persisted.                                               *)
C7_MissingEventRejected ==
    \A d \in Docs :
        LET b == booking[d]
        IN (FinishedCreate(b) /\ b.eventId \in EventIds /\ b.missingAtSave
              /\ b.eventExists # "found" /\ EmailMatches(b.email))
             => (b.outcome = "ReferenceError" /\ b.errId = b.eventId /\ saved[d] = NoRecord)

C7_Witness ==
    \E d \in Docs :
        /\ FinishedCreate(booking[d])
        /\ booking[d].missingAtSave
        /\ booking[d].eventExists = "missing"
        /\ booking[d].outcome = "ReferenceError"
        /\ booking[d].errId = "E1"
        /\ saved[d] = NoRecord

(* C8: a save of a Booking that is not new and whose eventId is unmodified *)
(* issues no Event lookup and is never rejected by the reference check,    *)
(* whether or not its Event exists.                                        *)
C8_UnchangedReferenceNotChecked ==
    \A d \in Docs :
        LET b == booking[d]
        IN (SaveInvoked(b) /\ ~b.wasNew /\ ~b.refChanged)
             => (b.phase # "lookup" /\ b.eventExists = "unset" /\ b.outcome # "ReferenceError")

C8_Witness ==
    \E d \in Docs :
        /\ booking[d].outcome = "saved"
        /\ ~booking[d].wasNew
        /\ ~booking[d].refChanged
        /\ booking[d].eventId \notin events
        /\ booking[d].raw = UserExampleInput
        /\ saved[d].email = UserExampleStored

(* C9: a save of a Booking whose email does not match the pattern fails    *)
(* with a validation error, whether or not its eventId refers to an        *)
(* existing Event; no Event lookup is issued for it and no malformed email *)
(* is ever persisted.                                                      *)
C9_MalformedEmailRejectedFirst ==
    \A d \in Docs :
        LET b == booking[d]
        IN /\ (SaveInvoked(b) /\ ~EmailMatches(b.email))
                => (b.phase = "idle" /\ b.outcome = "ValidationError" /\ b.eventExists = "unset")
           /\ saved[d] # NoRecord => EmailMatches(saved[d].email)

C9_Witness ==
    \E d \in Docs :
        /\ booking[d].outcome = "ValidationError"
        /\ booking[d].eventId \in events
        /\ ~booking[d].missingAtSave
        /\ ~EmailMatches(booking[d].email)
        /\ saved[d] = NoRecord

(* C10: a create with a well-formed email whose Event the hook finds       *)
(* succeeds and persists the input email trimmed and lower-cased           *)
(* ("User@Example.com" as "user@example.com"); every persisted email is in *)
(* normalized form.                                                        *)
C10_ValidCreatePersistsNormalized ==
    \A d \in Docs :
        LET b == booking[d]
        IN /\ (FinishedCreate(b) /\ EmailMatches(b.email) /\ b.eventExists = "found")
                => /\ b.outcome = "saved"
                   /\ saved[d].eventId = b.eventId
                   /\ NormalizedFormOf(saved[d].email, b.raw)
           /\ (b.outcome = "saved" /\ b.raw = UserExampleInput)
                => saved[d].email = UserExampleStored
           /\ saved[d] # NoRecord => IsNormalized(saved[d].email)

C10_Witness ==
    \E d \in Docs :
        /\ FinishedCreate(booking[d])
        /\ booking[d].eventExists = "found"
        /\ booking[d].raw = UserExampleInput
        /\ booking[d].outcome = "saved"
        /\ saved[d] = [eventId |-> booking[d].eventId, email |-> UserExampleStored]

Reloads == loads >= 1 /\ loads' = loads + 1

(* C14: an evaluation of the module after the first leaves the cache as it *)
(* is (same connection, same in-flight marker, no connect attempt started  *)
(* or lost); so a call that runs afterwards returns the connection cached  *)
(* before, or joins the attempt already in flight, without a new attempt.  *)
C14_ReloadKeepsCache ==
    [][/\ Reloads => /\ conn' = conn
                     /\ promise' = promise
                     /\ attempts' = attempts
                     /\ pstate' = pstate
                     /\ waiters' = waiters
       /\ \A c \in Callers :
            Starts(c) =>
               /\ conn # Null
                    => (pc'[c] = "returned" /\ ret'[c] = conn /\ attempts' = attempts)
               /\ (conn = Null /\ promise # Null)
                    => (awaited'[c] = promise /\ attempts' = attempts)]_vars

C14_Witness ==
    /\ loads >= 2
    /\ gen >= 2
    /\ attempts = 1
    /\ conn = Handle(1)
    /\ \A c \in Callers : pc[c] = "returned" /\ ret[c] = conn
    /\ \E c, e \in Callers : awaited[c] = 1 /\ awaited[e] = Null

(* C16: if MONGODB_URI is absent when the module is evaluated, the          *)
(* evaluation fails before global.mongoose is created: the module is never *)
(* loaded, no connectDB call is made, no connect attempt is started and no *)
(* connectDB call ever throws.                                             *)
C16_MissingUriIsFatal ==
    uri \in {"undefined", ""}
       => /\ moduleState \in {"unloaded", "failed"}
          /\ loads >= 1 => moduleState = "failed"
          /\ ~globalSet
          /\ attempts = 0
          /\ jobs = <<>>
          /\ \A c \in Callers : pc[c] = "idle" /\ err[c] = Null /\ ret[c] = Null

C16_Witness ==
    /\ uri = "undefined"
    /\ moduleState = "failed"
    /\ loads = MaxLoads
    /\ ~globalSet
====
